---------------------------- MODULE Spec2Model ----------------------------
(***************************************************************************)
(* Model of src/js/core/background.js (keep-or-delete-bookmarks): the      *)
(* background script that flattens the host's bookmark tree into a list,   *)
(* presents random entries of it and removes entries on keep / delete.     *)
(***************************************************************************)
EXTENDS Integers, Sequences, FiniteSets, TLC

\* ------------------------------------------------------------------ bounds
\* Non-root nodes of the bookmark trees the flattener is run on (SpecTree).
MaxNodes == 4
\* Bookmarks of the host's tree at start-up of the message protocol (Spec).
MaxBookmarks == 3
\* Tree fetches (collect handlers suspended at their await) in flight at once.
MaxPending == 1
\* Host removals requested by delete and not yet carried out.
MaxRemovals == 1
\* Toolbar clicks whose tabs.query has not called back yet.
MaxClicks == 2

\* ------------------------------------------------------- values of the host
\* currentBookmark : null (line 28)
Null == -1
\* the bookmark of a message whose index is outside the list (line 194)
Undefined == -2
\* nothing has been sent to the UI yet
NoneShown == -3
\* a message that carries no id
NoId == -4
\* id of the root node of the host's tree (bookmarks[0], line 126)
Root == 0

NodeTitles == <<"Work", "Site1", "Sub", "Site2", "News", "Blog", "Mail", "Docs">>

\* A BookmarkTreeNode as the host hands it out: title is "" when the node has
\* none, children exists (hasChildren) for folders only, url for bookmarks.
Node(title, type, hasChildren, children, url) ==
  [title |-> title, type |-> type, hasChildren |-> hasChildren,
   children |-> children, url |-> url]

UrlOf(i) == 100 + i

\* ------------------------------------------------------------ tree families
Parents(n) == {p \in [1..n -> 0..(n - 1)] : \A i \in 1..n : p[i] < i}

KidsOf(p, n, i) == SelectSeq([j \in 1..n |-> j], LAMBDA j : p[j] = i)

\* what a node can be: type, whether it has a title, whether it has children
InnerKinds == {<<"folder", TRUE, TRUE>>, <<"folder", FALSE, TRUE>>}
LeafKinds == {<<"bookmark", TRUE, FALSE>>, <<"bookmark", FALSE, FALSE>>,
              <<"separator", FALSE, FALSE>>,
              <<"folder", TRUE, TRUE>>, <<"folder", TRUE, FALSE>>}

MkTree(p, k, n) ==
  [i \in 0..n |->
     IF i = Root
       THEN Node("", "folder", TRUE, KidsOf(p, n, Root), 0)
       ELSE Node(IF k[i][2] THEN NodeTitles[i] ELSE "", k[i][1], k[i][3],
                 KidsOf(p, n, i),
                 IF k[i][1] = "bookmark" THEN UrlOf(i) ELSE 0)]

IsInner(p, n, i) == \E j \in 1..n : p[j] = i

Trees(n) ==
  {MkTree(p, k, n) :
     <<p, k>> \in {pk \in Parents(n) \X [1..n -> InnerKinds \cup LeafKinds] :
                     \A i \in 1..n :
                       IF IsInner(pk[1], n, i) THEN pk[2][i] \in InnerKinds
                                               ELSE pk[2][i] \in LeafKinds}}

\* root -> folder "Work" -> MaxBookmarks titled bookmarks
FlatTree ==
  [i \in 0..(MaxBookmarks + 1) |->
     IF i = Root THEN Node("", "folder", TRUE, <<1>>, 0)
     ELSE IF i = 1
       THEN Node("Work", "folder", TRUE, [j \in 1..MaxBookmarks |-> j + 1], 0)
       ELSE Node(NodeTitles[((i - 1) % 8) + 1], "bookmark", FALSE, <<>>, UrlOf(i))]

\* -------------------------------------------------------------------- state
VARIABLES
  tree,                \* the host's bookmark store
  removeQueue,         \* browser.bookmarks.remove calls the host has not done yet
  pending,             \* collect handlers awaiting browser.bookmarks.getTree
  collectedBookmarks,  \* kodb.collectedBookmarks
  additionalData,      \* kodb.additionalData: id -> path
  currentBookmark,     \* kodb.currentBookmark: Null or an index (0-based)
  pc,                  \* "idle", or "loop": inside the while of showNextBookmark
  lastShown,           \* id carried by the last random-bookmark message
  collects,            \* the last collect, [tree, list], then the one before it
                       \* when that one fetched the same tree
  hist,                \* the message being / last handled and what it started from
  deleted,             \* ids a 'delete' was handled for while the list held them
  overlap,             \* an entry was removed while the fetch last started was pending
  uiTabs,              \* open tabs whose url is that of UI_PAGE
  queries              \* browser.tabs.query calls in flight, by what they hold

vars == <<tree, removeQueue, pending, collectedBookmarks, additionalData,
          currentBookmark, pc, lastShown, collects, hist, deleted, overlap,
          uiTabs, queries>>

\* what the toolbar listener works on
tabVars == <<uiTabs, queries>>
\* what the message listener and the bookmark store work on
kodbVars == <<tree, removeQueue, pending, collectedBookmarks, additionalData,
              currentBookmark, pc, lastShown, collects, hist, deleted, overlap>>

\* --------------------------------------------------------- helper operators
\* Array.prototype.pop
Pop(s) == IF Len(s) = 0 THEN s ELSE SubSeq(s, 1, Len(s) - 1)
\* Array.prototype.slice(0, -1)
SliceButLast(s) == IF Len(s) = 0 THEN s ELSE SubSeq(s, 1, Len(s) - 1)
\* additionalData[id] = {...}
Put(ad, id, v) == [x \in (DOMAIN ad) \cup {id} |-> IF x = id THEN v ELSE ad[x]]
\* delete additionalData[id]
Delete(ad, id) == [x \in (DOMAIN ad) \ {id} |-> ad[x]]
EmptyData == [x \in {} |-> <<>>]

Ids(lst) == {lst[i].id : i \in 1..Len(lst)}

\* ------------------------------------------------- calculateBookmarkPaths
RECURSIVE calculateBookmarkPaths(_, _, _, _)
RECURSIVE calculateChildren(_, _, _, _)

\* Returns additionalData and the accumulator as the call leaves them.
calculateBookmarkPaths(t, id, ad, path) ==
  LET pushed == IF t[id].title # "" THEN Append(path, t[id].title) ELSE path
      r == IF t[id].hasChildren
             THEN calculateChildren(t, t[id].children, ad, pushed)
             ELSE [ad |-> Put(ad, id, SliceButLast(pushed)), path |-> pushed]
  IN [ad |-> r.ad, path |-> Pop(r.path)]

calculateChildren(t, kids, ad, path) ==
  IF kids = <<>> THEN [ad |-> ad, path |-> path]
  ELSE LET r == calculateBookmarkPaths(t, Head(kids), ad, path)
       IN calculateChildren(t, Tail(kids), r.ad, r.path)

\* ---------------------------------------------------------- collectBookmark
RECURSIVE collectBookmark(_, _, _, _)
RECURSIVE collectChildren(_, _, _, _)

\* as collectBookmark, but the test of line 142 only leaves folders out
collectBookmarkNotFolder(t, id, ad, lst) ==
  LET l1 == IF t[id].type # "folder"
              THEN Append(lst, [id |-> id, title |-> t[id].title,
                                url |-> t[id].url, path |-> ad[id]])
              ELSE lst
  IN IF t[id].hasChildren THEN collectChildren(t, t[id].children, ad, l1) ELSE l1

collectBookmark(t, id, ad, lst) ==
  LET l1 == IF t[id].type = "bookmark"
              THEN Append(lst, [id |-> id, title |-> t[id].title,
                                url |-> t[id].url, path |-> ad[id]])
              ELSE lst
  IN IF t[id].hasChildren THEN collectChildren(t, t[id].children, ad, l1) ELSE l1

collectChildren(t, kids, ad, lst) ==
  IF kids = <<>> THEN lst
  ELSE collectChildren(t, Tail(kids), ad, collectBookmark(t, Head(kids), ad, lst))

\* ------------------------------------------- collectAllBookmarks, 125-127
\* as rebuild, without line 125: the walk pushes onto the list as it was
rebuildNoReset(t, ad0, old) ==
  LET ad == calculateBookmarkPaths(t, Root, ad0, <<>>).ad
  IN [ad |-> ad, list |-> collectBookmark(t, Root, ad, old)]

\* as rebuild, with the path index emptied beside the list
rebuildFreshIndex(t, ad0, old) ==
  LET ad == calculateBookmarkPaths(t, Root, EmptyData, <<>>).ad
  IN [ad |-> ad, list |-> collectBookmark(t, Root, ad, <<>>)]

\* The synchronous rebuild from the fetched tree t: old is the list line 125
\* discards, ad0 the path index the walk of line 126 writes into.
rebuild(t, ad0, old) ==
  LET ad == calculateBookmarkPaths(t, Root, ad0, <<>>).ad
  IN [ad |-> ad, list |-> collectBookmark(t, Root, ad, <<>>)]

\* ------------------------------------------------------------- getIndexById
\* as getIndexById, counting positions from 1
getIndexByIdOneBased(lst, id) ==
  IF \E i \in 1..Len(lst) : lst[i].id = id
    THEN CHOOSE i \in 1..Len(lst) :
           lst[i].id = id /\ \A j \in 1..(i - 1) : lst[j].id # id
    ELSE -1

\* findIndex: the first index (0-based) whose entry has the id, or -1
getIndexById(lst, id) ==
  IF \E i \in 1..Len(lst) : lst[i].id = id
    THEN (CHOOSE i \in 1..Len(lst) :
            lst[i].id = id /\ \A j \in 1..(i - 1) : lst[j].id # id) - 1
    ELSE -1

\* Array.prototype.splice(start, 1): a negative start counts from the end
SpliceOne(lst, start) ==
  LET len == Len(lst)
      from == IF start < 0 THEN (IF len + start < 0 THEN 0 ELSE len + start)
              ELSE (IF start > len THEN len ELSE start)
  IN IF from >= len THEN lst
     ELSE SubSeq(lst, 1, from) \o SubSeq(lst, from + 2, len)

\* --------------------------------------------- removeFromCollectedBookmarks
removeFromCollectedBookmarks(lst, id) == SpliceOne(lst, getIndexById(lst, id))

\* --------------------------------------------------------- showNextBookmark
\* as Draws, multiplying by length - 1
DrawsShort(length) == IF length <= 1 THEN {0} ELSE 0..(length - 2)

\* Math.floor(Math.random() * length)
Draws(length) == IF length = 0 THEN {0} ELSE 0..(length - 1)

\* as Candidates, with a loop that draws once and compares with nothing
CandidatesAnyDraw(lst, cur) == Draws(Len(lst))

\* the draws that end the while loop
Candidates(lst, cur) == {r \in Draws(Len(lst)) : r # cur}

\* collectedBookmarks[nextBookmark].id, the bookmark being undefined outside the list
ShownAt(lst, r) == IF r < Len(lst) THEN lst[r + 1].id ELSE Undefined

\* One draw of the loop on list lst: a rejected draw keeps the script in the
\* loop, an accepted one sets currentBookmark and sends the message.
showNextBookmark(lst, h) ==
  \E r \in Draws(Len(lst)) :
    IF r \in Candidates(lst, currentBookmark)
      THEN /\ pc' = "idle"
           /\ currentBookmark' = r
           /\ lastShown' = ShownAt(lst, r)
           /\ hist' = [h EXCEPT !.sent = TRUE, !.prevShown = lastShown]
      ELSE /\ pc' = "loop"
           /\ hist' = h
           /\ UNCHANGED <<currentBookmark, lastShown>>

\* calls: the ids the handler has passed to browser.bookmarks.remove
Handling(msg, id) ==
  [msg |-> msg, id |-> id, listBefore |-> collectedBookmarks,
   curBefore |-> currentBookmark, sent |-> FALSE, prevShown |-> lastShown,
   calls |-> <<>>, dataBefore |-> additionalData]

\* a tree fetch is pending and an entry has been taken off the list, by this
\* handler or an earlier one, since it was started
Overlaps(after) == pending > 0 /\ (overlap \/ after # collectedBookmarks)

\* --------------------------------------------------------------------- init
InitRest ==
  /\ removeQueue = {}
  /\ pending = 0
  /\ collectedBookmarks = <<>>
  /\ additionalData = EmptyData
  /\ currentBookmark = Null
  /\ pc = "idle"
  /\ lastShown = NoneShown
  /\ collects = <<>>
  /\ hist = [msg |-> "none", id |-> NoId, listBefore |-> <<>>,
             curBefore |-> Null, sent |-> FALSE, prevShown |-> NoneShown,
             calls |-> <<>>, dataBefore |-> EmptyData]
  /\ deleted = {}
  /\ overlap = FALSE
  /\ uiTabs = 0
  /\ queries = [asked |-> 0, found |-> 0, none |-> 0]

Init == tree = FlatTree /\ InitRest

InitTree == tree \in UNION {Trees(n) : n \in 1..MaxNodes} /\ InitRest

\* ------------------------------------------------------------ handleResponse
\* the ids a message can carry: those of the bookmarks the host ever held
MsgIds == {i \in DOMAIN tree : tree[i].type = "bookmark"}

\* 'collect', up to the await of browser.bookmarks.getTree()
HandleCollect ==
  /\ pc = "idle"
  /\ pending < MaxPending
  /\ pending' = pending + 1
  /\ overlap' = FALSE
  /\ UNCHANGED <<tree, removeQueue, collectedBookmarks, additionalData,
                 currentBookmark, pc, lastShown, collects, hist, deleted>>
  /\ UNCHANGED tabVars

\* the tree arrives: collectAllBookmarks rebuilds, handleResponse shows
collectAllBookmarks ==
  /\ pc = "idle"
  /\ pending > 0
  /\ pending' = pending - 1
  /\ LET r == rebuild(tree, additionalData, collectedBookmarks)
         lst == r.list
     IN /\ additionalData' = r.ad
        /\ collectedBookmarks' = lst
        /\ collects' = IF collects # <<>> /\ collects[1].tree = tree
                          THEN <<[tree |-> tree, list |-> lst], collects[1]>>
                          ELSE <<[tree |-> tree, list |-> lst]>>
        /\ showNextBookmark(lst, Handling("collect", NoId))
  /\ UNCHANGED <<tree, removeQueue, deleted, overlap>>
  /\ UNCHANGED tabVars

HandleDelete(id) ==
  /\ pc = "idle"
  /\ Cardinality(removeQueue \cup {id}) <= MaxRemovals
  /\ removeQueue' = removeQueue \cup {id}
  /\ collectedBookmarks' = removeFromCollectedBookmarks(collectedBookmarks, id)
  /\ additionalData' = Delete(additionalData, id)
  /\ showNextBookmark(collectedBookmarks',
                      [Handling("delete", id) EXCEPT !.calls = <<id>>])
  /\ deleted' = IF id \in Ids(collectedBookmarks) THEN deleted \cup {id}
                ELSE deleted
  /\ overlap' = Overlaps(collectedBookmarks')
  /\ UNCHANGED <<tree, pending, collects>>
  /\ UNCHANGED tabVars

\* as HandleKeep, with the call of line 71 made in the 'keep' branch too
HandleKeepRemoving(id) ==
  /\ pc = "idle"
  /\ removeQueue' = removeQueue \cup {id}
  /\ collectedBookmarks' = removeFromCollectedBookmarks(collectedBookmarks, id)
  /\ additionalData' = Delete(additionalData, id)
  /\ showNextBookmark(collectedBookmarks',
                      [Handling("keep", id) EXCEPT !.calls = <<id>>])
  /\ overlap' = Overlaps(collectedBookmarks')
  /\ UNCHANGED <<tree, pending, collects, deleted>>
  /\ UNCHANGED tabVars

HandleKeep(id) ==
  /\ pc = "idle"
  /\ collectedBookmarks' = removeFromCollectedBookmarks(collectedBookmarks, id)
  /\ additionalData' = Delete(additionalData, id)
  /\ showNextBookmark(collectedBookmarks', Handling("keep", id))
  /\ overlap' = Overlaps(collectedBookmarks')
  /\ UNCHANGED <<tree, removeQueue, pending, collects, deleted>>
  /\ UNCHANGED tabVars

\* as HandleSkip, falling into the removal of the 'keep' branch: response.id
\* is undefined there
HandleSkipRemoving ==
  /\ pc = "idle"
  /\ collectedBookmarks' = removeFromCollectedBookmarks(collectedBookmarks, NoId)
  /\ additionalData' = Delete(additionalData, NoId)
  /\ showNextBookmark(collectedBookmarks', Handling("skip", NoId))
  /\ overlap' = Overlaps(collectedBookmarks')
  /\ UNCHANGED <<tree, removeQueue, pending, collects, deleted>>
  /\ UNCHANGED tabVars

HandleSkip ==
  /\ pc = "idle"
  /\ showNextBookmark(collectedBookmarks, Handling("skip", NoId))
  /\ overlap' = Overlaps(collectedBookmarks)
  /\ UNCHANGED <<tree, removeQueue, pending, collectedBookmarks, additionalData,
                 collects, deleted>>
  /\ UNCHANGED tabVars

\* a message whose name no branch matches
HandleOther ==
  /\ pc = "idle"
  /\ hist' = Handling("other", NoId)
  /\ overlap' = Overlaps(collectedBookmarks)
  /\ UNCHANGED <<tree, removeQueue, pending, collectedBookmarks, additionalData,
                 currentBookmark, pc, lastShown, collects, deleted>>
  /\ UNCHANGED tabVars

\* another iteration of the while loop of showNextBookmark
Resample ==
  /\ pc = "loop"
  /\ showNextBookmark(collectedBookmarks, hist)
  /\ UNCHANGED <<tree, removeQueue, pending, collectedBookmarks, additionalData,
                 collects, deleted, overlap>>
  /\ UNCHANGED tabVars

\* ---------------------------------------------------------------- the host
\* the tree without node id: it leaves the children of its parent
Detach(t, id) ==
  [p \in DOMAIN t |->
     [t[p] EXCEPT !.children = SelectSeq(t[p].children, LAMBDA c : c # id)]]

\* the host carries out a browser.bookmarks.remove(id)
HostRemove(id) ==
  /\ id \in removeQueue
  /\ removeQueue' = removeQueue \ {id}
  /\ tree' = IF id \in DOMAIN tree /\ tree[id].children = <<>> THEN Detach(tree, id)
             ELSE tree
  /\ UNCHANGED <<pending, collectedBookmarks, additionalData, currentBookmark,
                 pc, lastShown, collects, hist, deleted, overlap>>
  /\ UNCHANGED tabVars

\* -------------------------------------------------------- openUserInterface
\* browserAction.onClicked: openUserInterface calls browser.tabs.query
Click ==
  /\ queries.asked + queries.found + queries.none < MaxClicks
  /\ queries' = [queries EXCEPT !.asked = @ + 1]
  /\ UNCHANGED uiTabs
  /\ UNCHANGED kodbVars

\* the host reads its tabs for one query: the answer holds a tab with the
\* url of the UI page, or none
QueryAnswered ==
  /\ queries.asked > 0
  /\ queries' = IF uiTabs > 0
                  THEN [queries EXCEPT !.asked = @ - 1, !.found = @ + 1]
                  ELSE [queries EXCEPT !.asked = @ - 1, !.none = @ + 1]
  /\ UNCHANGED uiTabs
  /\ UNCHANGED kodbVars

\* the callback of a query runs: tabs.update of the tab found, which opens
\* no tab, or tabs.create
QueryCallback ==
  /\ \/ /\ queries.found > 0
        /\ queries' = [queries EXCEPT !.found = @ - 1]
        /\ UNCHANGED uiTabs
     \/ /\ queries.none > 0
        /\ queries' = [queries EXCEPT !.none = @ - 1]
        /\ uiTabs' = uiTabs + 1
  /\ UNCHANGED kodbVars

\* ----------------------------------------------------------- specifications
Next ==
  \/ HandleCollect
  \/ collectAllBookmarks
  \/ \E id \in MsgIds : HandleDelete(id)
  \/ \E id \in MsgIds : HandleKeep(id)
  \/ HandleSkip
  \/ HandleOther
  \/ Resample
  \/ \E id \in removeQueue : HostRemove(id)

Spec == Init /\ [][Next]_vars

NextTree ==
  \/ HandleCollect
  \/ collectAllBookmarks
  \/ Resample

SpecTree == InitTree /\ [][NextTree]_vars

\* the toolbar listener beside the message listener: clicks, and the UI
\* asking for a collect and skipping
NextTabs ==
  \/ Click
  \/ QueryAnswered
  \/ QueryCallback
  \/ HandleCollect
  \/ collectAllBookmarks
  \/ HandleSkip
  \/ Resample

SpecTabs == Init /\ [][NextTabs]_vars

\* Math.random() is fair: a draw that ends the loop, while there is one, is
\* eventually made.
SpecFair == Spec /\ WF_vars(Resample)

\* ------------------------------------------------------ claims: vocabulary
\* the handled message ends with a call of showNextBookmark
Presents == hist.msg \in {"collect", "delete", "keep", "skip"}
Removes == hist.msg \in {"delete", "keep"}
\* the presentation the handled message asks for has been sent
Presented == Presents /\ hist.sent
\* the while loop of showNextBookmark can never end: every draw is rejected
Stuck == pc = "loop" /\ Candidates(collectedBookmarks, currentBookmark) = {}

\* C1: two consecutive random-bookmark messages never carry the same bookmark
\* id when the list holds at least 2 entries at the second of them.
C1_NoConsecutiveRepeat ==
  (hist.sent /\ Len(collectedBookmarks) >= 2) => lastShown # hist.prevShown

\* C2: on a list of exactly one entry showNextBookmark terminates and
\* presents that entry, whatever was presented before.
C2_SingleEntryPresented ==
  (Presents /\ Len(collectedBookmarks) = 1) =>
     /\ ~Stuck
     /\ (pc = "idle" => hist.sent /\ lastShown = collectedBookmarks[1].id)

\* C3: removing an id that matches no entry leaves the list as it was: same
\* length, same entries, same order.
C3_RemoveAbsentIsNoOp ==
  (Removes /\ hist.id \notin Ids(hist.listBefore)) =>
     collectedBookmarks = hist.listBefore

\* C4: removing an id the list holds removes exactly that entry and its
\* path-index entry: the id is gone, the length is one less, the other
\* entries keep their order.
C4_RemovePresent ==
  (Removes /\ hist.id \in Ids(hist.listBefore)) =>
     /\ hist.id \notin Ids(collectedBookmarks)
     /\ Len(collectedBookmarks) = Len(hist.listBefore) - 1
     /\ collectedBookmarks = SelectSeq(hist.listBefore, LAMBDA e : e.id # hist.id)
     /\ hist.id \notin DOMAIN additionalData

\* C4: an entry in the middle of a list of three has been removed
C4_Witness ==
  /\ Removes
  /\ Len(hist.listBefore) = 3
  /\ hist.listBefore[2].id = hist.id
  /\ Len(collectedBookmarks) = 2

\* C7: a presentation requested on an empty list fails: no random-bookmark
\* message is sent and the selection state is not updated.
C7_EmptyListFails ==
  (Presents /\ collectedBookmarks = <<>>) =>
     ~hist.sent /\ currentBookmark = hist.curBefore

\* --------------------------------------------- claims: the tree, read directly
\* the last tree a collect was built from
CollectedTree == collects[1].tree
HasCollected == collects # <<>>

IsChildOf(t, p, x) == \E i \in 1..Len(t[p].children) : t[p].children[i] = x
ParentOf(t, x) == CHOOSE p \in DOMAIN t : IsChildOf(t, p, x)
PositionIn(t, p, x) == CHOOSE i \in 1..Len(t[p].children) : t[p].children[i] = x

\* the nodes from the root down to x, both included
RECURSIVE Chain(_, _)
Chain(t, x) == IF x = Root THEN <<Root>> ELSE Append(Chain(t, ParentOf(t, x)), x)

RECURSIVE Reaches(_, _)
Reaches(t, x) ==
  \/ x = Root
  \/ \E p \in DOMAIN t : IsChildOf(t, p, x) /\ Reaches(t, p)

\* the titles of the strict ancestors of x that have one, the root left out,
\* from the root down
AncestorTitles(t, x) ==
  LET c == Chain(t, x)
      strict == SubSeq(c, 2, Len(c) - 1)
      titled == SelectSeq(strict, LAMBDA a : t[a].title # "")
  IN [i \in 1..Len(titled) |-> t[titled[i]].title]

\* a comes before b in a depth-first walk that visits a node before its children
Before(t, a, b) ==
  LET ca == Chain(t, a)
      cb == Chain(t, b)
      m == IF Len(ca) < Len(cb) THEN Len(ca) ELSE Len(cb)
      differ == {k \in 1..m : ca[k] # cb[k]}
  IN IF differ = {} THEN Len(ca) < Len(cb)
     ELSE LET k == CHOOSE d \in differ : \A e \in differ : d <= e
          IN PositionIn(t, ca[k - 1], ca[k]) < PositionIn(t, ca[k - 1], cb[k])

BookmarkNodes(t) == {x \in DOMAIN t : t[x].type = "bookmark" /\ Reaches(t, x)}

\* C5: every entry a collect produces has as path the titles of the
\* bookmark's strict ancestors, the root excluded, from the root down.
C5_PathIsAncestorTitles ==
  (hist.msg = "collect") =>
     \A i \in 1..Len(collectedBookmarks) :
       collectedBookmarks[i].path =
         AncestorTitles(CollectedTree, collectedBookmarks[i].id)

\* C6: a collect produces exactly one entry per node of type "bookmark", in
\* depth-first tree order, and none for a folder or a separator.
C6_OneEntryPerBookmark ==
  (hist.msg = "collect") =>
     LET t == CollectedTree
         l == collectedBookmarks
     IN /\ Len(l) = Cardinality(BookmarkNodes(t))
        /\ Ids(l) = BookmarkNodes(t)
        /\ \A i, j \in 1..Len(l) : i < j => Before(t, l[i].id, l[j].id)

\* C6: a collect of a tree that holds a separator and a folder beside
\* bookmarks whose tree order is not the order of their ids
C6_Witness ==
  /\ hist.msg = "collect"
  /\ \E x \in DOMAIN tree : tree[x].type = "separator"
  /\ \E x \in DOMAIN tree \ {Root} : tree[x].type = "folder"
  /\ Len(collectedBookmarks) = 2
  /\ collectedBookmarks[1].id > collectedBookmarks[2].id

\* C8: a collect resets the selection state: every entry of the freshly
\* collected list can be the first presentation after it.
C8_CollectResetsSelection ==
  (hist.msg = "collect") =>
     \A r \in 0..(Len(collectedBookmarks) - 1) :
       r \in Candidates(collectedBookmarks, hist.curBefore)

\* C8 as amended: a collect keeps the selection state: the first presentation
\* after it is any entry of the fresh list but the one at the index shown last.
C8_CollectKeepsSelection ==
  (hist.msg = "collect" /\ collectedBookmarks # <<>>) =>
     /\ Candidates(collectedBookmarks, hist.curBefore) =
          (0..(Len(collectedBookmarks) - 1)) \ {hist.curBefore}
     /\ hist.sent =>
          /\ currentBookmark # hist.curBefore
          /\ currentBookmark \in 0..(Len(collectedBookmarks) - 1)
          /\ lastShown = collectedBookmarks[currentBookmark + 1].id

\* C8: a second collect has presented an entry while an index of the fresh
\* list had been shown before it
C8_Witness ==
  /\ hist.msg = "collect"
  /\ hist.sent
  /\ Len(collects) = 2
  /\ Len(collectedBookmarks) = 3
  /\ hist.curBefore = 1
  /\ currentBookmark = 2

\* C9: two collects of an unchanged tree, whatever was kept or skipped in
\* between, produce the same entries in the same order.
C9_CollectIdempotent ==
  (Len(collects) = 2 /\ collects[1].tree = collects[2].tree) =>
     collects[1].list = collects[2].list

\* C9: the second collect of an unchanged tree ran after entries were removed
C9_Witness ==
  /\ hist.msg = "collect"
  /\ Len(collects) = 2
  /\ collects[1].tree = collects[2].tree
  /\ Len(hist.listBefore) = 1
  /\ Len(collectedBookmarks) = 3

\* C10: every entry of the list is one bookmark node of the tree collected
\* last, and no id occurs twice in the list.
C10_EntriesAreBookmarks ==
  /\ ~HasCollected => collectedBookmarks = <<>>
  /\ HasCollected =>
       \A i \in 1..Len(collectedBookmarks) :
         LET e == collectedBookmarks[i]
         IN /\ e.id \in BookmarkNodes(CollectedTree)
            /\ e.title = CollectedTree[e.id].title
            /\ e.url = CollectedTree[e.id].url
            /\ \A j \in 1..Len(collectedBookmarks) :
                 collectedBookmarks[j].id = e.id => j = i

\* C10: entries are left after a keep that followed a second collect
C10_Witness ==
  /\ Len(collects) = 2
  /\ hist.msg = "keep"
  /\ Len(hist.listBefore) = 3
  /\ Len(collectedBookmarks) = 2

\* ------------------------------------------------- claims: C11 and onwards
\* C11: a "delete" calls the host's removal exactly once, with the id of the
\* message, before the next presentation is sent; "keep", "skip", "collect"
\* and other messages never call it: the outstanding removals grow only by
\* the call of a "delete", and the host's tree changes only when the host
\* carries out a removal that was called.
C11_RemoveOnlyOnDelete ==
  [][/\ hist'.msg = "delete" => hist'.calls = <<hist'.id>>
     /\ hist'.msg # "delete" => hist'.calls = <<>>
     /\ (pc = "idle" /\ hist' # hist /\ hist'.msg = "delete") =>
          hist'.id \in removeQueue'
     /\ removeQueue' \subseteq
          removeQueue \cup {hist'.calls[i] : i \in 1..Len(hist'.calls)}
     /\ tree' # tree =>
          \E id \in removeQueue : removeQueue' = removeQueue \ {id}]_vars

\* C11: a "delete" has called the removal and its presentation is not sent yet
C11_Witness ==
  /\ hist.msg = "delete"
  /\ pc = "loop"
  /\ ~hist.sent
  /\ hist.id \in removeQueue
  /\ Len(collectedBookmarks) = 2

\* C12: on a list of more than one entry the possible results of
\* showNextBookmark are exactly the entries whose id differs from the id
\* presented before.
C12_RejectsByIdentity ==
  (Presents /\ Len(collectedBookmarks) > 1) =>
     {ShownAt(collectedBookmarks, r) :
        r \in Candidates(collectedBookmarks, hist.curBefore)}
       = Ids(collectedBookmarks) \ {hist.prevShown}

\* C15: the list and the path index change only while a "collect", a "delete"
\* or a "keep" is handled: a "skip" or an unrecognised message leaves both.
C15_SkipLeavesListAndIndex ==
  [][/\ hist'.msg \in {"skip", "other", "none"} =>
          /\ collectedBookmarks' = collectedBookmarks
          /\ additionalData' = additionalData
     /\ (collectedBookmarks' # collectedBookmarks \/ additionalData' # additionalData)
          => hist'.msg \in {"collect", "delete", "keep"}]_vars

\* C15: a "skip" has presented an entry of a list of two whose index is intact
C15_Witness ==
  /\ hist.msg = "skip"
  /\ hist.sent
  /\ Len(collectedBookmarks) = 2
  /\ collectedBookmarks = hist.listBefore
  /\ DOMAIN additionalData # {}

\* C13: on a list of at least 2 entries the loop of showNextBookmark ends, a
\* fair random choice given, and the handled message gets exactly one
\* random-bookmark message: one is sent when the loop ends, and the loop does
\* not run again after it.
C13_LoopTerminates ==
  /\ (pc = "loop" /\ Len(collectedBookmarks) >= 2) ~> (pc = "idle" /\ Presented)
  /\ [](pc = "loop" => ~hist.sent)

\* C13: a draw on a list of at least 2 entries has been rejected
C13_Witness ==
  /\ pc = "loop"
  /\ Len(collectedBookmarks) >= 2
  /\ Candidates(collectedBookmarks, currentBookmark) # {}

\* the accumulator as the walk of line 126 holds it when it enters node x:
\* what the parent was entered with, the parent's title pushed, then the
\* calls for the children before x
RECURSIVE EntryPath(_, _)
EntryPath(t, x) ==
  IF x = Root THEN <<>>
  ELSE LET p == ParentOf(t, x)
           entered == EntryPath(t, p)
           pushed == IF t[p].title # "" THEN Append(entered, t[p].title)
                     ELSE entered
           earlier == SubSeq(t[p].children, 1, PositionIn(t, p, x) - 1)
       IN calculateChildren(t, earlier, EmptyData, pushed).path

\* C14: when calculateBookmarkPaths returns for a node, the accumulator holds
\* what it held before the node was entered.
C14_AccumulatorRestored ==
  (hist.msg = "collect") =>
     \A x \in DOMAIN CollectedTree :
       Reaches(CollectedTree, x) =>
         calculateBookmarkPaths(CollectedTree, x, EmptyData,
                                EntryPath(CollectedTree, x)).path
           = EntryPath(CollectedTree, x)

\* C16: whatever the clicks on the toolbar icon, overlapping ones included,
\* at most one tab shows the UI page.
C16_SingleUiTab == uiTabs <= 1

\* the place of bookmark x in a depth-first walk of t, counting bookmarks only
RankOf(t, x) == 1 + Cardinality({y \in BookmarkNodes(t) : Before(t, y, x)})

C18_DeletedNeverPresented == hist.sent => lastShown \notin deleted

\* the nodes of t, reached from the root, that have no children property
ChildlessNodes(t) == {x \in DOMAIN t : Reaches(t, x) /\ ~t[x].hasChildren}

\* C19: when a collect has completed, the path index holds an entry for the
\* childless nodes of the tree just collected and for no other id: no entry
\* written from an earlier tree survives.
C19_PathIndexSuperseded ==
  (hist.msg = "collect") =>
     DOMAIN additionalData = ChildlessNodes(CollectedTree)

\* C19 as amended: a collect writes the entry of every childless node of the
\* tree just collected and leaves every other entry of the path index as it
\* was: an entry is taken out by the keep or delete of its id only.
C19_PathIndexAccumulates ==
  (hist.msg = "collect") =>
     LET fresh == calculateBookmarkPaths(CollectedTree, Root, EmptyData, <<>>).ad
     IN /\ DOMAIN fresh = ChildlessNodes(CollectedTree)
        /\ DOMAIN additionalData =
             ChildlessNodes(CollectedTree) \cup DOMAIN hist.dataBefore
        /\ \A x \in DOMAIN additionalData :
             additionalData[x] = IF x \in ChildlessNodes(CollectedTree)
                                   THEN fresh[x]
                                   ELSE hist.dataBefore[x]

\* C19: a collect has completed and the path index holds the entry of a
\* bookmark that is not in the tree it fetched
C19_Witness ==
  /\ hist.msg = "collect"
  /\ hist.sent
  /\ \E x \in DOMAIN additionalData : x \notin ChildlessNodes(CollectedTree)

=============================================================================
